---- MODULE Spec2Model ----
(***************************************************************************)
(* libiter: the hash map of src/src/hashmap.c as a state machine.          *)
(*                                                                         *)
(* One map of int keys and values is driven through hashmap__insert,       *)
(* hashmap__set, hashmap__remove, hashmap__get and hashmap__reserve.  The  *)
(* backing buffer is kept slot by slot (metadata byte, key, value); the    *)
(* number of bytes the code asked the allocator for is kept next to it.    *)
(* The allocator is the environment: every call of it either fails or      *)
(* hands out memory whose content the code did not write.                  *)
(*                                                                         *)
(* Memory convention: a slot address computed by get_meta/get_key/         *)
(* get_value is read and written as ordinary memory, whether or not it     *)
(* lies inside the bytes requested for the buffer; `bytes` records the     *)
(* request so that the two can be compared.  A probe through a NULL buffer *)
(* ends the process (fate "crashed"); a probe loop that can never leave    *)
(* is fate "hung".                                                         *)
(***************************************************************************)
EXTENDS Integers, Sequences, FiniteSets, TLC

(* ------------------------------------------------------------------ *)
(* Program constants                                                   *)
(* ------------------------------------------------------------------ *)
META_SIZE == 16
META_EMPTY == 0
META_TOMB == 1
HASHMAP_MIN == META_SIZE
\* HASHMAP_THRESHOLD 0.7 as the exact fraction ThresholdNum / ThresholdDen
ThresholdNum == 7
ThresholdDen == 10

ITER_OK == 0
ITER_ENOENT == -2
ITER_ENOMEM == -12
ITER_EEXIST == -17
ITER_EINVAL == -22

\* sizeof(int), sizeof(double): the layout of hashmap(int, double)
KeySize == 4
ValueSize == 8

(* ------------------------------------------------------------------ *)
(* Bounds of the model                                                 *)
(* ------------------------------------------------------------------ *)
\* keys 1..MaxFill are inserted in order by the scripted fill
MaxFill == 21
\* scripted insert/remove steps of ChurnKey
MaxChurn == 24
\* operations with freely chosen arguments after the scripted prefix
MaxFree == 1
\* allocator calls of one operation that may fail before one succeeds
MaxFails == 2

\* the entry the scripted churn inserts and removes
ChurnEntry == [key |-> 0, val |-> 7]
ChurnKey == ChurnEntry.key
\* the keys of the freely chosen calls: the churned key, a key of the fill
\* and a key the script never inserts
FreeKeys == {ChurnKey, 1, MaxFill + 1}
Vals == {8}
ChurnVal == ChurnEntry.val
FillVal(k) == 100 + k
\* NULL: the pointer hashmap__get returns for no value, and a null key or
\* value argument
NONE == -1

\* every key the workload uses
KeyUniverse == (0..(MaxFill + 1)) \cup FreeKeys \cup {ChurnKey}

Max(x, y) == IF x > y THEN x ELSE y

RECURSIVE Pow2(_)
Pow2(n) == IF n = 0 THEN 1 ELSE 2 * Pow2(n - 1)

RECURSIVE BitAnd(_, _)
BitAnd(x, y) ==
    IF x = 0 \/ y = 0 THEN 0
    ELSE (x % 2) * (y % 2) + 2 * BitAnd(x \div 2, y \div 2)

\* sizeof(size_t) * 8 - __builtin_clzl(v): the number of significant bits
RECURSIVE BitLen(_)
BitLen(v) == IF v = 0 THEN 0 ELSE 1 + BitLen(v \div 2)

\* round_pow2: v--, smear the bits down, v++ (0 wraps around to 0)
round_pow2(v) == IF v = 0 THEN 0 ELSE Pow2(BitLen(v - 1))

RECURSIVE BitXor(_, _)
BitXor(x, y) ==
    IF x = 0 THEN y
    ELSE IF y = 0 THEN x
    ELSE ((x + y) % 2) + 2 * BitXor(x \div 2, y \div 2)

(* ------------------------------------------------------------------ *)
(* Hashing.  The map keeps the default strategy: hash == NULL, hasher   *)
(* == hasher_fnv1a, keys compared with memcmp.  The code reads the hash *)
(* only through hash & 0xFF and hash & mask with mask < 256, and the    *)
(* low byte of h * prime and of h ^ byte depends on the low bytes only, *)
(* so FNV-1a is computed modulo 256.                                    *)
(* ------------------------------------------------------------------ *)
\* HASH_FNV_OFFSET & 0xFF and HASH_FNV_PRIME & 0xFF (HASH_BITS == 64)
FnvOffsetLow == 37
FnvPrimeLow == 179

\* the ksize bytes of an int key, least significant first
RECURSIVE KeyBytes(_, _)
KeyBytes(key, n) ==
    IF n = 0 THEN <<>> ELSE <<key % 256>> \o KeyBytes(key \div 256, n - 1)

RECURSIVE FnvLoop(_, _)
FnvLoop(hash, bytes) ==
    IF bytes = <<>> THEN hash
    ELSE FnvLoop((BitXor(hash, Head(bytes)) * FnvPrimeLow) % 256, Tail(bytes))

\* hasher_fnv1a, tabulated once over the keys and key sizes of the model
FnvTable ==
    [length \in {KeySize} |->
        [key \in KeyUniverse |-> FnvLoop(FnvOffsetLow, KeyBytes(key, length))]]

hasher_fnv1a(key, length) == FnvTable[length][key]

\* hasher_djb2, modulo 256 like hasher_fnv1a: hash = ((hash << 5) + hash) +
\* byte, from 5381
Djb2Init == 5381

RECURSIVE Djb2Loop(_, _)
Djb2Loop(hash, bytes) ==
    IF bytes = <<>> THEN hash
    ELSE Djb2Loop((hash * 33 + Head(bytes)) % 256, Tail(bytes))

Djb2Table ==
    [length \in {KeySize} |->
        [key \in KeyUniverse |-> Djb2Loop(Djb2Init % 256, KeyBytes(key, length))]]

hasher_djb2(key, length) == Djb2Table[length][key]

\* map->hasher(buffer, length)
CallHasher(hasher, key, length) ==
    IF hasher = "djb2" THEN hasher_djb2(key, length)
    ELSE hasher_fnv1a(key, length)

\* a hash_fn of the caller for int keys: with other == NULL the hash of the
\* int under the hasher, otherwise 0 iff the two ints are equal
hash_int(item, other, hasher) ==
    IF other = NONE THEN CallHasher(hasher, item, KeySize)
    ELSE IF item = other THEN 0 ELSE 1

get_hash(map, key) ==
    IF map.hash # "NULL" THEN hash_int(key, NONE, map.hasher)
    ELSE CallHasher(map.hasher, key, map.ksize)

\* without a hash_fn, memcmp(x, y, ksize) of two int keys: 0 iff the bytes
\* are equal; the keys of the model are below 2^(8 * ksize), where that is
\* equality of the ints
compare_key(map, x, y) ==
    IF map.hash # "NULL" THEN hash_int(x, y, map.hasher)
    ELSE IF x = y THEN 0 ELSE 1

\* meta_part with `else if` for its second test: what C34 has to tell from
\* meta_part
meta_part_once(hash) ==
    LET p0 == hash % 256
    IN  IF p0 = META_EMPTY THEN p0 + 1
        ELSE IF p0 = META_TOMB THEN p0 + 1 ELSE p0

meta_part(hash) ==
    LET p0 == hash % 256
        p1 == IF p0 = META_EMPTY THEN p0 + 1 ELSE p0
    IN  IF p1 = META_TOMB THEN p1 + 1 ELSE p1

(* ------------------------------------------------------------------ *)
(* Memory and the allocator                                            *)
(* ------------------------------------------------------------------ *)
NullBuf == [nonnull |-> FALSE, bytes |-> 0, slots |-> <<>>]

ZeroSlot == [meta |-> 0, key |-> 0, val |-> 0]

\* What freshly obtained memory may hold before the code writes to it.
Patterns == {"zero", "stale", "full"}
Outcomes == {"fail"} \cup Patterns

\* slot s (from 0) of fresh memory holding pattern pat
Fresh(pat, s) ==
    CASE pat = "zero" -> ZeroSlot
      [] pat = "stale" ->
            IF s = 0
            THEN [meta |-> meta_part(hasher_fnv1a(1, KeySize)), key |-> 1, val |-> 9]
            ELSE ZeroSlot
      [] pat = "full" -> [meta |-> 255, key |-> 0, val |-> 0]

\* the outcome of the allocator's next call, and the schedule after it
NextOutcome(al) == Head(al.sched)
Advance(al) ==
    [al EXCEPT !.sched = IF Len(@) > 1 THEN Tail(@) ELSE @,
               !.calls = @ + 1]

\* reallocate(allocator, old, oldBytes, newBytes); nslots slots are addressed
\* through the result
reallocate(al, old, newBytes, nslots) ==
    LET o == NextOutcome(al)
        a1 == Advance(al)
    IN  IF o = "fail"
        THEN [ptr |-> NullBuf, al |-> [a1 EXCEPT !.fails = @ + 1]]
        ELSE [ptr |-> [nonnull |-> TRUE,
                       bytes |-> newBytes,
                       slots |-> [s \in 1..nslots |->
                                    IF s <= Len(old.slots) THEN old.slots[s]
                                    ELSE Fresh(o, s - 1)]],
              al |-> [a1 EXCEPT !.live = IF old.nonnull THEN @ ELSE @ + 1]]

\* deallocate(allocator, ptr, size)
deallocate(al, ptr) ==
    IF ptr.nonnull THEN [al EXCEPT !.live = @ - 1] ELSE al

(* ------------------------------------------------------------------ *)
(* The map                                                             *)
(* ------------------------------------------------------------------ *)
hashmap__capacity(map) ==
    IF map.buffer.nonnull THEN Pow2(map.capacityLog2) ELSE 0

hashmap__count(map) == map.count

\* (capacity - 1) / META_SIZE in size_t: with capacity 0 the subtraction wraps
\* to SIZE_MAX; every bit the model's hashes can have is then set
get_mask(map) ==
    IF hashmap__capacity(map) = 0 THEN 255
    ELSE (hashmap__capacity(map) - 1) \div META_SIZE

\* the slot at get_meta(map, b)->parts[i], get_key(map, meta, i),
\* get_value(map, meta, i)
SlotAt(map, b, i) == map.buffer.slots[b * META_SIZE + i + 1]

\* meta_match(get_meta(map, b), part): the bitset of the i with
\* parts[i] == part, kept as the set of its set bits
meta_match(map, b, part) ==
    {i \in 0..(META_SIZE - 1) : SlotAt(map, b, i).meta = part}

\* the lowest set bit of a bitset, -1 when it has none
LowestBit(bitset) ==
    IF bitset = {} THEN -1
    ELSE CHOOSE i \in bitset : \A j \in bitset : i <= j

\* BITSET_EACH(bitset, i) { return ...; }: the first i the loop visits, or
\* -1 when it visits none
FirstBit(bitset) == LowestBit(bitset)

\* BITSET_EACH(matches, i) { if (0 == compare_key(...)) return ...; }: the
\* first i the loop visits whose stored key equals key, or -1
FirstKey(map, key, b, bitset) ==
    LowestBit({i \in bitset : compare_key(map, key, SlotAt(map, b, i).key) = 0})

\* what every call leaves behind: the map, the allocator, the returned code
\* and whether the call returned at all
Res(map, al, ret, fate) == [map |-> map, al |-> al, ret |-> ret, fate |-> fate]

\* Only({e(x) : x \in {v}}) is e with x bound to the value of v
Only(S) == CHOOSE x \in S : TRUE

\* ProbeGroup with a Tombstone taken for an Empty slot: what C28 has to tell
\* from ProbeGroup
ProbeGroup_takes_tombstone(map, key, part, b) ==
    Only({ IF hit >= 0 THEN [kind |-> "match", b |-> b, i |-> hit]
           ELSE Only({ IF e >= 0 THEN [kind |-> "empty", b |-> b, i |-> e]
                       ELSE [kind |-> "next", b |-> b, i |-> 0]
                     : e \in {FirstBit(meta_match(map, b, META_EMPTY)
                                       \cup meta_match(map, b, META_TOMB))} })
         : hit \in {FirstKey(map, key, b, meta_match(map, b, part))} })

\* One group of BUCKET_EACH as used by get, set, insert and remove: first
\* the slots whose tag matches are compared with the key, then the group is
\* asked for an Empty slot.
ProbeGroup(map, key, part, b) ==
    Only({ IF hit >= 0 THEN [kind |-> "match", b |-> b, i |-> hit]
           ELSE Only({ IF e >= 0 THEN [kind |-> "empty", b |-> b, i |-> e]
                       ELSE [kind |-> "next", b |-> b, i |-> 0]
                     : e \in {FirstBit(meta_match(map, b, META_EMPTY))} })
         : hit \in {FirstKey(map, key, b, meta_match(map, b, part))} })

\* The groups are visited in a cycle of mask + 1; once all of them were seen
\* without an exit, nothing has changed and the loop goes round forever.
RECURSIVE BucketEach(_, _, _, _, _, _)
BucketEach(map, key, part, mask, b, visited) ==
    Only({ IF p.kind # "next" THEN p
           ELSE IF visited = mask THEN [kind |-> "forever", b |-> b, i |-> 0]
           ELSE Only({ BucketEach(map, key, part, mask, nb, visited + 1)
                     : nb \in {BitAnd(b + 1, mask)} })
         : p \in {ProbeGroup(map, key, part, b)} })

\* BUCKET_EACH as used by fast_insert: only Empty slots are looked for
RECURSIVE EmptyEach(_, _, _, _)
EmptyEach(map, mask, b, visited) ==
    Only({ IF e >= 0 THEN [kind |-> "empty", b |-> b, i |-> e]
           ELSE IF visited = mask THEN [kind |-> "forever", b |-> b, i |-> 0]
           ELSE Only({ EmptyEach(map, mask, nb, visited + 1)
                     : nb \in {BitAnd(b + 1, mask)} })
         : e \in {FirstBit(meta_match(map, b, META_EMPTY))} })

\* map->count++; meta->parts[i] = part; memcpy of key and value
Claim(map, b, i, part, key, value) ==
    [map EXCEPT !.count = @ + 1,
                !.buffer.slots[b * META_SIZE + i + 1] =
                    [meta |-> part, key |-> key, val |-> value]]

\* grow_empty with the allocator's result stored in map->buffer before it
\* is tested: what C10 has to tell from grow_empty
grow_empty_store_first(map, al, capacity) ==
    Only({ IF ~r.ptr.nonnull
           THEN Res([map EXCEPT !.buffer = r.ptr], r.al, ITER_ENOMEM, "returned")
           ELSE Res([map EXCEPT !.buffer = r.ptr,
                                !.capacityLog2 = BitLen(capacity)],
                    r.al, ITER_OK, "returned")
         : r \in {reallocate(al, map.buffer,
                             (META_SIZE * capacity * 2) \div META_SIZE,
                             Pow2(BitLen(capacity)))} })

grow_empty(map, al, capacity) ==
    Only({ IF ~r.ptr.nonnull
           THEN Res(map, r.al, ITER_ENOMEM, "returned")
           ELSE Res([map EXCEPT !.buffer = r.ptr,
                                !.capacityLog2 = BitLen(capacity)],
                    r.al, ITER_OK, "returned")
         : r \in {reallocate(al, map.buffer,
                             (META_SIZE * capacity * 2) \div META_SIZE,
                             Pow2(BitLen(capacity)))} })

RECURSIVE hashmap__reserve(_, _, _)
RECURSIVE grow_not_empty(_, _, _)
RECURSIVE hashmap__fast_insert(_, _, _, _)
RECURSIVE Rehash(_, _, _, _)

\* hashmap__reserve growing already when count reaches the threshold: what
\* C30 has to tell from hashmap__reserve
hashmap__reserve_at_threshold(map, al, count) ==
    LET capacity == hashmap__capacity(map)
    IN  IF ThresholdDen * (map.count + count) < ThresholdNum * capacity
        THEN Res(map, al, ITER_OK, "returned")
        ELSE LET required == hashmap__capacity(map)
                 grown == Max(round_pow2(required), HASHMAP_MIN)
             IN  IF map.count = 0
                 THEN grow_empty(map, al, grown)
                 ELSE grow_not_empty(map, al, grown)

hashmap__reserve(map, al, count) ==
    LET capacity == hashmap__capacity(map)
    IN  IF ThresholdDen * (map.count + count) <= ThresholdNum * capacity
        THEN Res(map, al, ITER_OK, "returned")
        ELSE LET required == hashmap__capacity(map)
                 grown == Max(round_pow2(required), HASHMAP_MIN)
             IN  IF map.count = 0
                 THEN grow_empty(map, al, grown)
                 ELSE grow_not_empty(map, al, grown)

\* the two loops of grow_not_empty over the old buffer, from slot s on;
\* the result of fast_insert is not looked at
Rehash(map, tmp, al, s) ==
    IF s = hashmap__capacity(map) THEN Res(tmp, al, ITER_OK, "returned")
    ELSE LET slot == map.buffer.slots[s + 1]
         IN  IF slot.meta = META_EMPTY \/ slot.meta = META_TOMB
             THEN Rehash(map, tmp, al, s + 1)
             ELSE Only({ IF r.fate # "returned" THEN r
                         ELSE Rehash(map, r.map, r.al, s + 1)
                       : r \in {hashmap__fast_insert(tmp, al, slot.key, slot.val)} })

grow_not_empty(map, al, capacity) ==
    Only({ IF g.ret = 0    \* if (!grow_empty(&tmp, capacity))
           THEN Res(map, g.al, ITER_ENOMEM, "returned")
           ELSE Only({ IF r.fate # "returned" THEN r
                       ELSE \* hashmap__free(map); *map = tmp;
                            Res(r.map, deallocate(r.al, map.buffer),
                                ITER_OK, "returned")
                     : r \in {Rehash(map, g.map, g.al, 0)} })
         : g \in {grow_empty([map EXCEPT !.buffer = NullBuf, !.count = 0],
                             al, capacity)} })

\* the probe of fast_insert in a map that reserve has let through
FastProbe(map, al, key, value) ==
    IF ~map.buffer.nonnull THEN Res(map, al, ITER_OK, "crashed")
    ELSE LET hash == get_hash(map, key)
             part == meta_part(hash)
             mask == get_mask(map)
         IN  Only({ IF p.kind = "forever" THEN Res(map, al, ITER_OK, "hung")
                    ELSE Res(Claim(map, p.b, p.i, part, key, value),
                             al, ITER_OK, "returned")
                  : p \in {EmptyEach(map, mask, BitAnd(hash, mask), 0)} })

hashmap__fast_insert(map, al, key, value) ==
    Only({ IF r.fate # "returned" THEN r
           ELSE IF r.ret # 0 THEN Res(r.map, r.al, ITER_ENOMEM, "returned")
           ELSE FastProbe(r.map, r.al, key, value)
         : r \in {hashmap__reserve(map, al, 1)} })

\* the probe of hashmap__get, hashmap__set, hashmap__insert and
\* hashmap__remove: where BUCKET_EACH leaves the loop
Probe(map, key) ==
    LET hash == get_hash(map, key)
        mask == get_mask(map)
    IN  BucketEach(map, key, meta_part(hash), mask, BitAnd(hash, mask), 0)

\* hashmap__get: the value found, or NONE for NULL
hashmap__get(map, key) ==
    IF key = NONE \/ map.count = 0 THEN [out |-> NONE, fate |-> "returned"]
    ELSE IF ~map.buffer.nonnull THEN [out |-> NONE, fate |-> "crashed"]
    ELSE Only({ CASE p.kind = "match" ->
                       [out |-> SlotAt(map, p.b, p.i).val, fate |-> "returned"]
                  [] p.kind = "empty" -> [out |-> NONE, fate |-> "returned"]
                  [] p.kind = "forever" -> [out |-> NONE, fate |-> "hung"]
              : p \in {Probe(map, key)} })

\* hashmap__set once reserve has let it through
SetProbe(map, al, key, value) ==
    IF ~map.buffer.nonnull THEN Res(map, al, ITER_OK, "crashed")
    ELSE Only({ CASE p.kind = "match" ->
                       Res([map EXCEPT
                              !.buffer.slots[p.b * META_SIZE + p.i + 1].val = value],
                           al, ITER_OK, "returned")
                  [] p.kind = "empty" ->
                       Res(Claim(map, p.b, p.i, meta_part(get_hash(map, key)),
                                 key, value),
                           al, ITER_OK, "returned")
                  [] p.kind = "forever" -> Res(map, al, ITER_OK, "hung")
              : p \in {Probe(map, key)} })

hashmap__set(map, al, key, value) ==
    IF key = NONE \/ value = NONE THEN Res(map, al, ITER_EINVAL, "returned")
    ELSE
    Only({ IF r.fate # "returned" THEN r
           ELSE IF r.ret # 0 THEN Res(r.map, r.al, ITER_ENOMEM, "returned")
           ELSE SetProbe(r.map, r.al, key, value)
         : r \in {hashmap__reserve(map, al, 1)} })

\* hashmap__insert once reserve has let it through
InsertProbe(map, al, key, value) ==
    IF ~map.buffer.nonnull THEN Res(map, al, ITER_OK, "crashed")
    ELSE Only({ CASE p.kind = "match" -> Res(map, al, ITER_EEXIST, "returned")
                  [] p.kind = "empty" ->
                       Res(Claim(map, p.b, p.i, meta_part(get_hash(map, key)),
                                 key, value),
                           al, ITER_OK, "returned")
                  [] p.kind = "forever" -> Res(map, al, ITER_OK, "hung")
              : p \in {Probe(map, key)} })

\* hashmap__insert with the test of value left out: what C16 has to tell
\* from hashmap__insert
hashmap__insert_any_value(map, al, key, value) ==
    IF key = NONE THEN Res(map, al, ITER_EINVAL, "returned")
    ELSE
    Only({ IF r.fate # "returned" THEN r
           ELSE IF r.ret # 0 THEN Res(r.map, r.al, ITER_ENOMEM, "returned")
           ELSE InsertProbe(r.map, r.al, key, value)
         : r \in {hashmap__reserve(map, al, 1)} })

hashmap__insert(map, al, key, value) ==
    IF key = NONE \/ value = NONE THEN Res(map, al, ITER_EINVAL, "returned")
    ELSE
    Only({ IF r.fate # "returned" THEN r
           ELSE IF r.ret # 0 THEN Res(r.map, r.al, ITER_ENOMEM, "returned")
           ELSE InsertProbe(r.map, r.al, key, value)
         : r \in {hashmap__reserve(map, al, 1)} })

hashmap__remove(map, al, key) ==
    IF key = NONE THEN Res(map, al, ITER_EINVAL, "returned")
    ELSE IF map.count = 0 THEN Res(map, al, ITER_ENOENT, "returned")
    ELSE IF ~map.buffer.nonnull THEN Res(map, al, ITER_OK, "crashed")
    ELSE Only({ CASE p.kind = "match" ->
                       Res([map EXCEPT
                              !.buffer.slots[p.b * META_SIZE + p.i + 1].meta = META_TOMB,
                              !.count = @ - 1],
                           al, ITER_OK, "returned")
                  [] p.kind = "empty" -> Res(map, al, ITER_ENOENT, "returned")
                  [] p.kind = "forever" -> Res(map, al, ITER_OK, "hung")
              : p \in {Probe(map, key)} })

\* hashmap__use_hash with the count test left out: what C15 has to tell
\* from hashmap__use_hash
hashmap__use_hash_any_count(map, al, hash, hasher) ==
    Res([map EXCEPT !.hash = hash,
                    !.hasher = IF hasher # "NULL" THEN hasher ELSE "fnv1a"],
        al, ITER_OK, "returned")

hashmap__use_hash(map, al, hash, hasher) ==
    IF map.count > 0 THEN Res(map, al, ITER_EINVAL, "returned")
    ELSE Res([map EXCEPT !.hash = hash,
                         !.hasher = IF hasher # "NULL" THEN hasher ELSE "fnv1a"],
             al, ITER_OK, "returned")

(* ------------------------------------------------------------------ *)
(* Construction                                                        *)
(* ------------------------------------------------------------------ *)
\* PF_ALIGN_PAD(x, a): the bytes to add to x to reach a multiple of a
PF_ALIGN_PAD(x, a) == (a - (x % a)) % a

\* alignof(union hashmeta) with the __m128i member
MetaAlign == 16

\* the NULL that hashmap__init and hashmap__create return
NullMap == [null |-> TRUE]

\* hashmap__init without the padding in front of the values: what C35 has
\* to tell from hashmap__init
hashmap__init_packed(layout, log2) ==
    LET kalign == Max(layout.kalign, layout.ksize)
        valign == Max(layout.valign, layout.vsize)
        koffset == META_SIZE + PF_ALIGN_PAD(META_SIZE, kalign)
        voffset0 == koffset + layout.ksize * META_SIZE
        voffset == voffset0
        bucketSize0 == voffset + layout.vsize * META_SIZE
        bucketSize == bucketSize0 + PF_ALIGN_PAD(bucketSize0, MetaAlign)
    IN  IF layout.ksize = 0 THEN NullMap ELSE
        [buffer |-> NullBuf,
         count |-> 0,
         ksize |-> layout.ksize,
         koffset |-> koffset,
         vsize |-> layout.vsize,
         voffset |-> voffset,
         bucketSize |-> bucketSize,
         capacityLog2 |-> log2,
         hash |-> "NULL",
         hasher |-> "fnv1a"]

\* hashmap__init on a handle whose capacityLog2 field still holds log2,
\* the value that was in the memory the handle was allocated from; NULL
\* for a layout with ksize 0
hashmap__init(layout, log2) ==
    LET kalign == Max(layout.kalign, layout.ksize)
        valign == Max(layout.valign, layout.vsize)
        koffset == META_SIZE + PF_ALIGN_PAD(META_SIZE, kalign)
        voffset0 == koffset + layout.ksize * META_SIZE
        voffset == voffset0 + PF_ALIGN_PAD(voffset0, valign)
        bucketSize0 == voffset + layout.vsize * META_SIZE
        bucketSize == bucketSize0 + PF_ALIGN_PAD(bucketSize0, MetaAlign)
    IN  IF layout.ksize = 0 THEN NullMap ELSE
        [buffer |-> NullBuf,
         count |-> 0,
         ksize |-> layout.ksize,
         koffset |-> koffset,
         vsize |-> layout.vsize,
         voffset |-> voffset,
         bucketSize |-> bucketSize,
         capacityLog2 |-> log2,
         hash |-> "NULL",
         hasher |-> "fnv1a"]

\* hashmap__with_capacity on the handle out that hashmap__create returned:
\* when the reserve fails the handle is destroyed and NULL is returned
\* (fate "null": there is no map to call anything on)
hashmap__with_capacity(out, al, capacity) ==
    IF capacity > 0
    THEN Only({ IF r.fate = "returned" /\ r.ret # 0
                THEN Res([out EXCEPT !.buffer = NullBuf],
                         deallocate(r.al, r.map.buffer), ITER_ENOMEM, "null")
                ELSE r
              : r \in {hashmap__reserve(out, al, capacity)} })
    ELSE Res(out, al, ITER_OK, "returned")

\* hashmap_make_layout(int, double)
IntDoubleLayout ==
    [ksize |-> KeySize, kalign |-> KeySize, vsize |-> ValueSize, valign |-> ValueSize]

\* values the never-assigned capacityLog2 of a new handle may hold
UninitLog2 == {0, 5}

(* ------------------------------------------------------------------ *)
(* Vectors (src/src/vector.c)                                          *)
(* ------------------------------------------------------------------ *)
ITER_TRUE == 1
ITER_FALSE == 0
SORT_BUFFER_SIZE == 4096

\* sizeof(T) of the vector(T) in use: a char, an int, a page-sized struct
ItemSizes == {1, 4, SORT_BUFFER_SIZE}

\* the content of a cell of memory that was never written, or that was
\* given back to the allocator
JUNK == -2

\* a null array argument
NullItems == <<>>

\* the buffer of a vector is kept as its cells of sizeof(T) bytes each; every
\* offset and size the code works with is in bytes, as in the C code
vector_type_mul(tsize, i) == tsize * i

VECTOR_GROWTH(old, req) == (3 * (old + req)) \div 2

PF_MIN(a, b) == IF a < b THEN a ELSE b

vector__init(allocator) ==
    [items |-> <<>>, length |-> 0, capacity |-> 0, allocator |-> allocator]

\* what a vector call returns and leaves in *vec
VRes(vec, ret) == [vec |-> vec, ret |-> ret]

\* the cell a byte offset points into, NONE (NULL) beyond the capacity
vector__slot(vec, i, tsize) ==
    IF i >= vec.capacity THEN NONE ELSE (i \div tsize) + 1

\* the two orders in which memcpy may move the bytes; they differ only when
\* source and destination overlap, where the call is undefined
Directions == {"forward", "backward"}

RECURSIVE CopyUp(_, _, _, _, _)
CopyUp(buf, dst, src, n, k) ==
    IF k >= n THEN buf
    ELSE CopyUp([buf EXCEPT ![dst + k] = buf[src + k]], dst, src, n, k + 1)

RECURSIVE CopyDown(_, _, _, _)
CopyDown(buf, dst, src, k) ==
    IF k = 0 THEN buf
    ELSE CopyDown([buf EXCEPT ![dst + k - 1] = buf[src + k - 1]], dst, src, k - 1)

\* memcpy inside one buffer: n cells from cell src to cell dst
memcpy(buf, dst, src, n, dir) ==
    IF n = 0 THEN buf
    ELSE IF dir = "forward" THEN CopyUp(buf, dst, src, n, 0)
    ELSE CopyDown(buf, dst, src, n)

Overlap(dst, src, n) == dst # src /\ dst < src + n /\ src < dst + n

\* memcpy from the caller's array into the buffer
StoreItems(buf, dst, items, n) ==
    [c \in 1..Len(buf) |-> IF c >= dst /\ c < dst + n THEN items[c - dst + 1]
                           ELSE buf[c]]

\* mem is what the allocator does if asked: "ok" or "fail"
vector__resize(vec, capacity, mem, tsize) ==
    IF vec.allocator = "NULL" THEN VRes(vec, ITER_EINVAL)
    ELSE IF mem = "fail" /\ capacity > 0 THEN VRes(vec, ITER_ENOMEM)
    ELSE VRes([vec EXCEPT
                 !.items = [c \in 1..(capacity \div tsize) |->
                              IF c <= Len(vec.items) THEN vec.items[c] ELSE JUNK],
                 !.capacity = capacity,
                 !.length = IF vec.length > capacity THEN capacity ELSE @],
              ITER_OK)

vector__reserve(vec, size, mem, tsize) ==
    IF size = 0 THEN VRes(vec, ITER_EINVAL)
    ELSE IF vec.length + size <= vec.capacity THEN VRes(vec, ITER_OK)
    ELSE vector__resize(vec, VECTOR_GROWTH(vec.capacity, size), mem, tsize)

vector__insert(vec, items, i, size, mem, dir, tsize) ==
    IF items = NullItems \/ size = 0 \/ i > vec.length THEN VRes(vec, ITER_EINVAL)
    ELSE LET r == vector__reserve(vec, size, mem, tsize) IN
         IF r.ret # ITER_OK THEN VRes(r.vec, ITER_ENOMEM)
         ELSE LET v == r.vec
                  moved == IF i < v.length
                           THEN memcpy(v.items, vector__slot(v, i + size, tsize),
                                       vector__slot(v, i, tsize),
                                       (v.length - i) \div tsize, dir)
                           ELSE v.items
              IN VRes([v EXCEPT
                         !.items = StoreItems(moved, vector__slot(v, i, tsize),
                                              items, size \div tsize),
                         !.length = @ + size],
                      ITER_OK)

vector__remove(vec, i, size, dir, tsize) ==
    IF size = 0 \/ i + size > vec.length THEN VRes(vec, ITER_EINVAL)
    ELSE VRes([vec EXCEPT
                 !.items = IF i + size < vec.length - 1
                           THEN memcpy(vec.items, vector__slot(vec, i, tsize),
                                       vector__slot(vec, i + size, tsize),
                                       (vec.length - i - size) \div tsize, dir)
                           ELSE @,
                 !.length = @ - size],
              ITER_OK)

vector__swap_remove(vec, i, size, dir, tsize) ==
    IF i + size > vec.length THEN VRes(vec, ITER_EINVAL)
    ELSE VRes([vec EXCEPT
                 !.items = IF i + size < vec.length
                           THEN memcpy(vec.items, vector__slot(vec, i, tsize),
                                       vector__slot(vec, vec.length - size, tsize),
                                       size \div tsize, dir)
                           ELSE @,
                 !.length = @ - size],
              ITER_OK)

\* the comparison callbacks handed to vector_sort and vector_is_sorted
compare_int(lhs, rhs) == lhs - rhs

CallCompare(compare, lhs, rhs) == compare_int(lhs, rhs)

mergesort_compare(s, i, j) ==
    IF i >= s.right \/ j >= s.end
    THEN (IF i < s.right THEN -1 ELSE 0)
    ELSE CallCompare(s.compare, s.A[i + 1], s.A[j + 1])

mergesort_copy(s, dst, src) == [s EXCEPT !.B[dst + 1] = s.A[src + 1]]

RECURSIVE MergeLoop(_, _, _, _)
MergeLoop(s, i, j, k) ==
    IF k >= s.end THEN s
    ELSE IF mergesort_compare(s, i, j) < 0
         THEN MergeLoop(mergesort_copy(s, k, i), i + 1, j, k + 1)
         ELSE MergeLoop(mergesort_copy(s, k, j), i, j + 1, k + 1)

mergesort_merge(s) == MergeLoop(s, s.left, s.right, s.left)

PF_SWAP(s) == [s EXCEPT !.A = s.B, !.B = s.A, !.Aptr = s.Bptr, !.Bptr = s.Aptr]

RECURSIVE PassLoop(_, _, _)
PassLoop(s, w, i) ==
    IF i >= s.count THEN s
    ELSE PassLoop(mergesort_merge([s EXCEPT !.left = i,
                                            !.right = PF_MIN(i + w, s.count),
                                            !.end = PF_MIN(i + 2 * w, s.count)]),
                  w, i + 2 * w)

RECURSIVE WidthLoop(_, _)
WidthLoop(s, w) ==
    IF w >= s.count THEN s
    ELSE WidthLoop(PF_SWAP(PassLoop(s, w, 0)), w * 2)

\* returns the sorter; its A is the array the C function returns
mergesort(s) == WidthLoop(s, 1)

\* what a released buffer may hold when it is read afterwards
Afterlives == {"intact", "reused"}

\* mem: what allocate does if asked; after: what the memory given back to
\* the allocator holds afterwards. The result also names the buffer that was
\* given back: "none", "buffer" (the temporary one) or "items" (vec->items)
vector__sort(vec, compare, size, mem, after) ==
    IF size = 0 \/ compare = "NULL"
    THEN [vec |-> vec, ret |-> ITER_EINVAL, released |-> "none"]
    ELSE IF vec.length < size * 2
    THEN [vec |-> vec, ret |-> ITER_OK, released |-> "none"]
    ELSE IF vec.length > SORT_BUFFER_SIZE /\ mem = "fail"
    THEN [vec |-> vec, ret |-> ITER_ENOMEM, released |-> "none"]
    ELSE LET count == vec.length \div size
             s == mergesort([A |-> SubSeq(vec.items, 1, count),
                             B |-> [c \in 1..count |-> JUNK],
                             Aptr |-> "items", Bptr |-> "buffer",
                             count |-> count, size |-> size,
                             left |-> 0, right |-> 0, end |-> 0,
                             compare |-> compare])
             released == IF vec.length > SORT_BUFFER_SIZE THEN s.Bptr ELSE "none"
             out == [c \in 1..Len(vec.items) |->
                       IF released = "items" /\ after = "reused" THEN JUNK
                       ELSE IF c <= count THEN s.A[c] ELSE vec.items[c]]
         IN [vec |-> [vec EXCEPT !.items = out], ret |-> ITER_OK,
             released |-> released]

RECURSIVE SortedFrom(_, _, _, _)
SortedFrom(v, compare, size, i) ==
    IF i + size > v.length THEN ITER_TRUE
    ELSE IF 0 < CallCompare(compare, v.items[vector__slot(v, i - size, size)],
                            v.items[vector__slot(v, i, size)])
         THEN ITER_FALSE
         ELSE SortedFrom(v, compare, size, i + size)

vector__is_sorted(v, compare, size) ==
    IF size = 0 \/ compare = "NULL" THEN ITER_EINVAL
    ELSE SortedFrom(v, compare, size, size)

(* ------------------------------------------------------------------ *)
(* Iterators (src/src/iter.c)                                          *)
(* ------------------------------------------------------------------ *)
ITER_ENODATA == -61

\* what a call of an iterator returns and leaves in *it and in *out
IRes(it, ret, out) == [it |-> it, ret |-> ret, out |-> out]

\* iter__from_array: items is the array, length its size in bytes
iter__from_array(items, length) ==
    [call |-> "array_iter_fn", items |-> items, current |-> 0, end |-> length]

\* out is "slot" (a variable of the caller's, holding held), "NULL", or
\* "self" (the iterator itself, as iter_free passes it)
array_iter_fn(it, out, held, size, skip) ==
    IF size = 0 \/ out = "self" THEN IRes(it, ITER_EINVAL, held)
    ELSE LET skipped == IF skip # 0
                        THEN [it EXCEPT !.current = @ + size * skip]
                        ELSE it
         IN  IF skip # 0 /\ skipped.current >= skipped.end
             THEN IRes(skipped, ITER_ENODATA, held)
             ELSE IF out # "NULL"
             THEN IF skipped.current + size > skipped.end
                  THEN IRes(skipped, ITER_ENODATA, held)
                  ELSE IRes([skipped EXCEPT !.current = @ + size], ITER_OK,
                            skipped.items[(skipped.current \div size) + 1])
             ELSE IRes(skipped, ITER_OK, held)

iter__call(it, out, held, size, skip) ==
    IF it.call = "NULL" THEN IRes(it, ITER_EINVAL, held)
    ELSE array_iter_fn(it, out, held, size, skip)

iter_next(it, out, held, size) == iter__call(it, out, held, size, 0)

iter_nth(it, out, held, size, n) == iter__call(it, out, held, size, n)

iter_advance(it, held, size, n) == iter__call(it, "NULL", held, size, n)

iter_free(it, held, size) == iter__call(it, "self", held, size, 0)

(* ------------------------------------------------------------------ *)
(* The pool (src/src/pool.c)                                           *)
(* ------------------------------------------------------------------ *)
BUCKET_SIZE == 64

\* a size_t has 64 bits and an int 32; a flags word is the set of its set bits
SIZE_BITS == 64
INT_BITS == 32
Word == 0..(SIZE_BITS - 1)

\* an item pointer: the bucket, numbered in the order of allocation, and
\* the item's index from the bucket's start; NullItem is NULL
Item(b, i) == [b |-> b, i |-> i]
NullItem == Item(0, 0)

PF_ALIGN_UP(x, a) == ((x + a - 1) \div a) * a

\* `1 << bit` is a shift of the int 1, converted to size_t where it is
\* used.  Up to bit 30 it is that bit; at bit 31 it is INT_MIN, which the
\* conversion sign-extends; a negative count or one of 32 and more is
\* undefined: the hardware takes the count modulo 32 ("masked") or the
\* result is zero ("zero").
ShiftOutcomes == {"masked", "zero"}

IntBit(bit) == IF bit = INT_BITS - 1 THEN (INT_BITS - 1)..(SIZE_BITS - 1) ELSE {bit}

Shl1(bit, build) ==
    IF bit >= 0 /\ bit < INT_BITS THEN IntBit(bit)
    ELSE IF build.shift = "masked" THEN IntBit(bit % INT_BITS)
    ELSE {}

\* pf_ctzsize counts the trailing zero bits; on a zero word it gives the
\* width or whatever the instruction leaves, of which 0 stands for the rest
CtzOfZero == {SIZE_BITS, 0}

pf_ctzsize(w, build) ==
    IF w = {} THEN build.ctz0
    ELSE CHOOSE b \in w : \A c \in w : b <= c

pool__init == [count |-> 0, capacity |-> 0, buffer |-> <<>>]

\* pool__reserve; allocated says whether allocate returns a block.  The
\* new bucket goes to the head of the list.
pool__reserve(pool, count, allocated) ==
    IF count = 0 THEN [pool |-> pool, ret |-> ITER_EINVAL]
    ELSE IF pool.count + count > pool.capacity
    THEN LET cap == PF_ALIGN_UP((pool.count + count) * 2, BUCKET_SIZE)
             bucket == [id |-> Len(pool.buffer) + 1,
                        count |-> 0, empty |-> 0, capacity |-> cap,
                        flags |-> [i \in 1..(cap \div BUCKET_SIZE) |-> {}]]
         IN  IF ~allocated THEN [pool |-> pool, ret |-> ITER_ENOMEM]
             ELSE [pool |-> [pool EXCEPT !.capacity = @ + cap,
                                         !.buffer = <<bucket>> \o @],
                   ret |-> ITER_OK]
    ELSE [pool |-> pool, ret |-> ITER_OK]

\* the list position of the bucket give finds for item, 0 if there is none
BucketOf(pool, item) ==
    LET hits == {k \in DOMAIN pool.buffer :
                   /\ pool.buffer[k].id = item.b
                   /\ 0 <= item.i
                   /\ item.i <= pool.buffer[k].capacity}
    IN  IF hits = {} THEN 0 ELSE Only(hits)

pool__give(pool, item, build) ==
    IF item = NullItem THEN [pool |-> pool, ret |-> ITER_EINVAL]
    ELSE LET k == BucketOf(pool, item) IN
    IF k = 0 THEN [pool |-> pool, ret |-> ITER_ENOENT]
    ELSE LET bucket == pool.buffer[k]
             index == item.i
             word == (index \div BUCKET_SIZE) + 1
             mask == Shl1(index % BUCKET_SIZE, build)
         IN  IF bucket.flags[word] \cap mask = {}
             THEN [pool |-> pool, ret |-> ITER_ENOENT]
             ELSE [pool |->
                     [pool EXCEPT
                        !.count = @ - 1,
                        !.buffer[k] =
                          [bucket EXCEPT
                             !.flags[word] = @ \ mask,
                             !.count = @ - 1,
                             !.empty = IF @ > index THEN index ELSE @]],
                   ret |-> ITER_OK]

\* the first word from `from` on that is not ~0, 0 if there is none
FirstFreeWord(bucket, from) ==
    LET free == {i \in DOMAIN bucket.flags : i >= from + 1 /\ bucket.flags[i] # Word}
    IN  IF free = {} THEN 0 ELSE CHOOSE i \in free : \A j \in free : i <= j

pool__take(pool, allocated, build) ==
    LET res == pool__reserve(pool, 1, allocated) IN
    IF res.ret # ITER_OK THEN [pool |-> pool, item |-> NullItem]
    ELSE LET p == res.pool
             room == {k \in DOMAIN p.buffer : p.buffer[k].count < p.buffer[k].capacity}
             k == CHOOSE x \in room : \A y \in room : x <= y
             bucket == p.buffer[k]
             w == FirstFreeWord(bucket, bucket.empty)
         IN  IF w = 0 THEN [pool |-> p, item |-> NullItem]
             ELSE LET i == w - 1
                      bit == pf_ctzsize(bucket.flags[w], build) - 1
                  IN  [pool |->
                         [p EXCEPT
                            !.count = @ + 1,
                            !.buffer[k] =
                              [bucket EXCEPT
                                 !.flags[w] = @ \cup Shl1(bit, build),
                                 !.count = @ + 1,
                                 !.empty = i]],
                       item |-> Item(bucket.id, i * BUCKET_SIZE + bit)]

(* ------------------------------------------------------------------ *)
(* The hashmap's iterator (declared in src/include/iter/hashmap.h;     *)
(* its definition is not in src/src/hashmap.c)                         *)
(* ------------------------------------------------------------------ *)
\* hashmap__iter: the iterator starts before the first slot of the first group
hashmap__iter(map) == [call |-> "hashmap_iter_fn", current |-> 0]

\* one call with skip 0 and an out: the next slot in (group, slot) order
\* that is neither Empty nor Tombstone gives its value
hashmap_iter_fn(map, iter) ==
    LET slots == map.buffer.slots
        live == {s \in DOMAIN slots :
                   /\ s > iter.current
                   /\ slots[s].meta # META_EMPTY
                   /\ slots[s].meta # META_TOMB}
    IN  IF ~map.buffer.nonnull \/ live = {}
        THEN [iter |-> [iter EXCEPT !.current = Len(slots)],
              ret |-> ITER_ENODATA, slot |-> 0, out |-> NONE]
        ELSE LET s == CHOOSE x \in live : \A y \in live : x <= y
             IN  [iter |-> [iter EXCEPT !.current = s],
                  ret |-> ITER_OK, slot |-> s, out |-> slots[s].val]

(* ------------------------------------------------------------------ *)
(* meta_match in its two builds, and the creation of a map for any     *)
(* layout                                                              *)
(* ------------------------------------------------------------------ *)
\* x | y
BitOr(x, y) == x + y - BitAnd(x, y)

\* _mm_cmpeq_epi8(meta->sse[0], _mm_set1_epi8(part)): byte i is 0xFF where
\* the two bytes are equal and 0 where they are not
mm_cmpeq_epi8(parts, part) ==
    [i \in DOMAIN parts |-> IF parts[i] = part THEN 255 ELSE 0]

\* _mm_movemask_epi8: bit i of the result is the top bit of byte i
RECURSIVE MoveMask(_, _)
MoveMask(v, i) ==
    IF i >= Len(v) THEN 0
    ELSE BitOr((v[i + 1] \div 128) * Pow2(i), MoveMask(v, i + 1))

mm_movemask_epi8(v) == MoveMask(v, 0)

\* meta_match built with __SSE2__: META_SIZE / 16 = 1 turn of the loop,
\* out |= result << 0
meta_match_sse2(parts, part) ==
    BitOr(0, mm_movemask_epi8(mm_cmpeq_epi8(parts, part)))

\* meta_match built without __SSE2__: the loop over i from 0 to META_SIZE - 1
RECURSIVE ScalarLoop(_, _, _, _)
ScalarLoop(parts, part, i, out) ==
    IF i >= META_SIZE THEN out
    ELSE ScalarLoop(parts, part, i + 1,
                    IF parts[i + 1] = part THEN BitOr(out, Pow2(i)) ELSE out)

\* meta_match without __SSE2__ with its loop starting at 1: what C36 has
\* to tell from meta_match_scalar
meta_match_scalar_from_one(parts, part) == ScalarLoop(parts, part, 1, 0)

meta_match_scalar(parts, part) == ScalarLoop(parts, part, 0, 0)

\* hashmap__create: NULL for a layout with ksize 0, or when allocate has no
\* memory for the handle; otherwise the handle as hashmap__init leaves it
hashmap__create(layout, allocated) ==
    IF layout.ksize = 0 THEN NullMap
    ELSE IF ~allocated THEN NullMap
    ELSE hashmap__init(layout, 0)

(* ------------------------------------------------------------------ *)
(* The state machine                                                   *)
(* ------------------------------------------------------------------ *)
VARIABLES
    map,      \* the hashmap_t and the memory its buffer points to
    heap,     \* the allocator: buffers handed out and not given back
    pc,       \* "run", or "crashed" / "hung" once a call did not return
    last,     \* the last call: its arguments and what it returned
    pre,      \* the map as it was when the last call started
    shadow,   \* per key, the value of the last insert/set that returned
              \* ITER_OK, NONE after a remove that returned ITER_OK
    hist,     \* what has happened so far: which calls, which memory
    script,   \* how far the workload has got
    vec,      \* the vector_t and the memory its items point to
    vtype,    \* sizeof(T) of the vector(T)
    vcall,    \* the last vector call: its arguments and what it returned
    vold,     \* the vector as it was when the last vector call started
    it,       \* the iter_t and the array it walks
    itype,    \* sizeof(T) of the iter(T)
    iout,     \* the caller's variable that out points to
    icall,    \* the last iterator call: its arguments and what it returned
    pool,     \* the pool_t and its buckets
    pbuild,   \* what the build makes of the undefined shifts and counts
    pcall,    \* the last pool call, and the items in use before and after it
    hiter,    \* the iterator over the hashmap, if one is out
    hicall,   \* the last call of that iterator and the slots it has yielded
    pure      \* the last call of a function of its arguments alone, and its result

mapvars == <<map, heap, pc, last, pre, shadow, hist, script>>
vecvars == <<vec, vtype, vcall, vold>>
itervars == <<it, itype, iout, icall>>
poolvars == <<pool, pbuild, pcall>>
mapitervars == <<hiter, hicall>>
vars == <<map, heap, pc, last, pre, shadow, hist, script, vec, vtype, vcall, vold,
          it, itype, iout, icall, pool, pbuild, pcall, hiter, hicall,
          pure>>

NoVecCall ==
    [op |-> "create", i |-> 0, n |-> 0, items |-> NullItems,
     compare |-> "NULL", dir |-> "forward", ret |-> ITER_OK,
     released |-> "none", calls |-> 0]

\* no vector is in use while the hashmap runs
VecIdle ==
    /\ vec = vector__init("default")
    /\ vtype = 1
    /\ vcall = NoVecCall
    /\ vold = vec

AllKeys == KeyUniverse

\* allocator outcomes for the calls of one operation: the first k calls fail,
\* the calls after them all end the same way
Scheds == {[i \in 1..(k + 1) |-> IF i <= k THEN "fail" ELSE o] :
              k \in 0..MaxFails, o \in Outcomes}

NoCall ==
    [op |-> "create", key |-> 0, val |-> 0, n |-> 0, ret |-> ITER_OK,
     out |-> NONE, fate |-> "returned", fails |-> 0, calls |-> 0,
     had |-> NONE, live |-> 0, room |-> 0, hash |-> "NULL", hasher |-> "NULL"]

MapInit ==
    /\ \E log2 \in UninitLog2 : map = hashmap__init(IntDoubleLayout, log2)
    /\ heap = [live |-> 0]
    /\ pc = "run"
    /\ last = NoCall
    /\ pre = map
    /\ shadow = [k \in AllKeys |-> NONE]
    /\ hist = [plain |-> TRUE, tried |-> {}, removed |-> {},
               dirty |-> FALSE, failed |-> FALSE, grown |-> FALSE, room |-> 0,
               stored |-> FALSE]
    /\ script = [fill |-> 0, churn |-> 0, free |-> 0, ok |-> TRUE]

NoIterCall ==
    [op |-> "from_array", out |-> "NULL", skip |-> 0, ret |-> ITER_OK,
     calls |-> 0, nexts |-> 0, only_next |-> TRUE,
     was |-> iter__from_array(<<>>, 0), held |-> NONE]

\* no iterator is in use while the hashmap or the vector runs
IterIdle ==
    /\ it = iter__from_array(<<>>, 0)
    /\ itype = 1
    /\ iout = NONE
    /\ icall = NoIterCall

NoPoolCall ==
    [op |-> "create", item |-> NullItem, ret |-> ITER_OK, calls |-> 0,
     gives |-> 0, was |-> {}, inuse |-> {}]

\* no pool is in use while the hashmap, the vector or the iterator runs
PoolIdle ==
    /\ pool = pool__init
    /\ pbuild = [shift |-> "masked", ctz0 |-> SIZE_BITS]
    /\ pcall = NoPoolCall

\* no iterator over the map is out
MapIterIdle ==
    /\ hiter = [call |-> "NULL", current |-> 0]
    /\ hicall = [op |-> "none", ret |-> ITER_OK, out |-> NONE,
                 yielded |-> <<>>, past |-> 0]

\* no function has been called on its own
PureIdle == pure = [fn |-> "none", applied |-> TRUE]

Init == MapInit /\ VecIdle /\ IterIdle /\ PoolIdle /\ MapIterIdle /\ PureIdle

\* the allocator as one operation sees it
Al(sched) == [sched |-> sched, live |-> heap.live, fails |-> 0, calls |-> 0]

\* an operation that reserves room for n goes to the allocator
Grows(n) ==
    ~(ThresholdDen * (map.count + n) <= ThresholdNum * hashmap__capacity(map))

SchedsFor(n) == IF Grows(n) THEN Scheds ELSE {<<"zero">>}

\* during the scripted prefix the allocator does not fail
ScriptScheds == {<<p>> : p \in Patterns}

(* The workload: first keys 1..MaxFill are inserted in order, then ChurnKey
   is inserted and removed in turn, each step only if the steps before it
   returned ITER_OK; at any point up to MaxFree calls with freely chosen
   arguments follow, and a last hashmap__get. *)
FillStep(k, v) ==
    /\ script.ok /\ script.free = 0 /\ script.churn = 0
    /\ k = script.fill + 1 /\ k <= MaxFill /\ v = FillVal(k)

ChurnStep(k) ==
    /\ script.ok /\ script.free = 0 /\ script.churn < MaxChurn
    /\ script.fill \in {0, MaxFill}
    /\ k = ChurnKey

FreeStep(k) == script.free < MaxFree /\ k \in FreeKeys

Scripted(fill, churn, free, r) ==
    script' = [fill |-> script.fill + fill,
               churn |-> script.churn + churn,
               free |-> script.free + free,
               ok |-> script.ok /\ (free = 1 \/ (r.fate = "returned" /\ r.ret = ITER_OK))]

\* the call returned ITER_OK
Ok(r) == r.fate = "returned" /\ r.ret = ITER_OK

\* hist after a call:
\*   plain    every call so far was an insert of a key no insert was given
\*            before, or a get
\*   tried    the keys given to insert
\*   removed  the keys a remove that returned ITER_OK was given
\*   dirty    the allocator has handed out memory that was not zero-filled
\*   failed   the allocator has failed
\*   grown    the allocator has handed out a buffer
\*   stored   an insert or set has returned ITER_OK
\*   room     how many inserts of new keys the last reserve or with_capacity
\*            that returned ITER_OK has still made room for
Recorded(op, key, n, r) ==
    [plain |-> hist.plain /\ (op \in {"get", "with_capacity"}
                              \/ (op = "insert" /\ key \notin hist.tried)),
     tried |-> IF op = "insert" THEN hist.tried \cup {key} ELSE hist.tried,
     removed |-> IF op = "remove" /\ Ok(r) THEN hist.removed \cup {key}
                 ELSE hist.removed,
     dirty |-> hist.dirty \/ (r.al.calls > r.al.fails
                              /\ r.al.sched[Len(r.al.sched)] # "zero"),
     failed |-> hist.failed \/ r.al.fails > 0,
     grown |-> hist.grown \/ r.al.calls > r.al.fails,
     stored |-> hist.stored \/ (op \in {"insert", "set"} /\ Ok(r)),
     room |-> CASE op \in {"reserve", "with_capacity"} ->
                     IF Ok(r) THEN n ELSE 0
                [] op = "insert" ->
                     IF shadow[key] = NONE THEN Max(hist.room - 1, 0) ELSE hist.room
                [] op = "get" -> hist.room
                [] OTHER -> 0]

\* the hash and hasher arguments of a call that has none
NoStrategy == [hash |-> "NULL", hasher |-> "NULL"]

\* what every call leaves in the state
Call(op, key, val, n, strategy, r, out, sh) ==
    /\ map' = r.map
    /\ heap' = [live |-> r.al.live]
    /\ pc' = IF r.fate = "returned" THEN "run" ELSE r.fate
    /\ last' = [op |-> op, key |-> key, val |-> val, n |-> n, ret |-> r.ret,
                out |-> out, fate |-> r.fate, fails |-> r.al.fails,
                calls |-> r.al.calls,
                had |-> IF key = NONE THEN NONE ELSE shadow[key],
                live |-> heap.live,
                room |-> hist.room, hash |-> strategy.hash,
                hasher |-> strategy.hasher]
    /\ pre' = map
    /\ shadow' = IF Ok(r) THEN sh ELSE shadow
    /\ hist' = Recorded(op, key, n, r)
    /\ UNCHANGED <<vecvars, itervars, poolvars, mapitervars, pure>>

Done(op, key, val, n, r, out, sh) ==
    Call(op, key, val, n, NoStrategy, r, out, sh)

Insert ==
    /\ pc = "run"
    /\ \E k \in AllKeys, sched \in SchedsFor(1) :
       \E v \in Vals \cup {FillVal(k), ChurnVal} :
        /\ \/ FillStep(k, v) /\ sched \in ScriptScheds
           \/ ChurnStep(k) /\ v = ChurnVal /\ shadow[k] = NONE /\ sched \in ScriptScheds
           \/ FreeStep(k) /\ v \in Vals
        /\ \E r \in {hashmap__insert(map, Al(sched), k, v)} :
             /\ Done("insert", k, v, 1, r, NONE, [shadow EXCEPT ![k] = v])
             /\ \/ FillStep(k, v) /\ Scripted(1, 0, 0, r)
                \/ ChurnStep(k) /\ v = ChurnVal /\ Scripted(0, 1, 0, r)
                \/ ~FillStep(k, v) /\ ~(ChurnStep(k) /\ v = ChurnVal)
                   /\ Scripted(0, 0, 1, r)

Set ==
    /\ pc = "run"
    /\ \E k \in FreeKeys, v \in Vals, sched \in SchedsFor(1) :
        /\ FreeStep(k)
        /\ \E r \in {hashmap__set(map, Al(sched), k, v)} :
             /\ Done("set", k, v, 1, r, NONE, [shadow EXCEPT ![k] = v])
             /\ Scripted(0, 0, 1, r)

Remove ==
    /\ pc = "run"
    /\ \E k \in FreeKeys \cup {ChurnKey} :
        /\ \/ ChurnStep(k) /\ shadow[k] # NONE
           \/ FreeStep(k)
        /\ \E r \in {hashmap__remove(map, Al(<<"zero">>), k)} :
             /\ Done("remove", k, 0, 0, r, NONE, [shadow EXCEPT ![k] = NONE])
             /\ \/ ChurnStep(k) /\ Scripted(0, 1, 0, r)
                \/ ~ChurnStep(k) /\ Scripted(0, 0, 1, r)

\* a get reads the map and ends the workload: the calls that could follow it
\* start from the same map as the calls that follow the state it is made in
Get ==
    /\ pc = "run"
    /\ last.op # "get"
    /\ \E k \in FreeKeys :
        \E g \in {hashmap__get(map, k)} :
             /\ Done("get", k, 0, 0, Res(map, Al(<<"zero">>), ITER_OK, g.fate),
                     g.out, shadow)
             /\ script' = [script EXCEPT !.free = Max(@, MaxFree), !.ok = FALSE]

\* the counts hashmap_reserve is called with
ReserveCounts == {0, 1, 23}

Reserve ==
    /\ pc = "run"
    /\ script.free < MaxFree
    /\ \E n \in ReserveCounts : \E sched \in SchedsFor(n) :
        \E r \in {hashmap__reserve(map, Al(sched), n)} :
             /\ Done("reserve", ChurnKey, 0, n, r, NONE, shadow)
             /\ Scripted(0, 0, 1, r)

\* the capacities hashmap_with_capacity is called with
WithCapacities == {1, 23}

\* the map is made by hashmap_with_capacity instead of hashmap_create
WithCapacity ==
    /\ pc = "run"
    /\ last.op = "create"
    /\ \E n \in WithCapacities : \E sched \in SchedsFor(n) :
        \E r \in {hashmap__with_capacity(map, Al(sched), n)} :
             /\ Done("with_capacity", ChurnKey, 0, n, r, NONE, shadow)
             /\ Scripted(0, 0, 0, r)

\* the hash_fn and hasher_fn arguments hashmap_use_hash is called with
HashArgs == {"NULL", "hash_int"}
HasherArgs == {"NULL", "djb2"}

UseHash ==
    /\ pc = "run"
    /\ script.free < MaxFree
    /\ \E hash \in HashArgs, hasher \in HasherArgs :
        \E r \in {hashmap__use_hash(map, Al(<<"zero">>), hash, hasher)} :
             /\ Call("use_hash", ChurnKey, 0, 0,
                     [hash |-> hash, hasher |-> hasher], r, NONE, shadow)
             /\ Scripted(0, 0, 1, r)

\* the calls with a null key or a null value
NullCalls ==
    {[op |-> op, key |-> k, val |-> v] :
        op \in {"insert", "set"}, k \in FreeKeys \cup {NONE}, v \in Vals \cup {NONE}}
    \cup {[op |-> op, key |-> NONE, val |-> 0] : op \in {"remove", "get"}}

NullCall ==
    /\ pc = "run"
    /\ script.free < MaxFree
    /\ \E c \in NullCalls, sched \in SchedsFor(1) :
        /\ c.key = NONE \/ c.val = NONE
        /\ \E r \in {CASE c.op = "insert" ->
                            hashmap__insert(map, Al(sched), c.key, c.val)
                       [] c.op = "set" ->
                            hashmap__set(map, Al(sched), c.key, c.val)
                       [] c.op = "remove" ->
                            hashmap__remove(map, Al(sched), c.key)
                       [] c.op = "get" ->
                            Res(map, Al(sched), ITER_OK,
                                hashmap__get(map, c.key).fate)} :
             /\ Done(c.op \o "_null", c.key, c.val, 0, r,
                     IF c.op = "get" THEN hashmap__get(map, c.key).out ELSE NONE,
                     shadow)
             /\ Scripted(0, 0, 1, r)

Next ==
    \/ Insert \/ Set \/ Remove \/ Get \/ Reserve \/ WithCapacity \/ UseHash
    \/ NullCall

Spec == Init /\ [][Next]_vars

(* ------------------------------------------------------------------ *)
(* The vector state machine                                            *)
(* ------------------------------------------------------------------ *)
MaxItems == 5
MaxCalls == 3

\* the arrays handed to vector_insert, with the count passed along; also a
\* null array and a count of zero
InsertArgs ==
    {[items |-> a, n |-> Len(a)] : a \in {<<1>>, <<3, 1>>, <<3, 2, 1>>}}
    \cup {[items |-> NullItems, n |-> 1], [items |-> <<1>>, n |-> 0]}

\* the counts handed to vector_remove and vector_swap_remove
RemoveCounts == 0..3

\* the callbacks handed to vector_sort
CompareArgs == {"compare_int", "NULL"}

\* the array handed to vector_wrap
WrapArray == <<2, 3, 1>>

vector__wrap(items, length, allocator) ==
    IF items = NullItems \/ length = 0 THEN NONE
    ELSE [items |-> items, length |-> length, capacity |-> length,
          allocator |-> allocator]

\* the hashmap is created and left alone while the vector runs
MapIdle == MapInit /\ map.capacityLog2 = 0 /\ MapIterIdle

VecInit ==
    /\ MapIdle
    /\ PureIdle
    /\ vtype \in ItemSizes
    /\ vec \in {vector__init("default"),
                vector__wrap(WrapArray, vector_type_mul(vtype, Len(WrapArray)),
                             "NULL")}
    /\ vcall = NoVecCall
    /\ vold = vec
    /\ IterIdle
    /\ PoolIdle

\* vector_length
VLength(v) == v.length \div vtype

\* the items of a vector, first to last
VItems(v) == SubSeq(v.items, 1, VLength(v))

\* calls are followed while they succeed and while vec->items is memory
\* the vector owns
VecReady ==
    /\ vcall.ret = ITER_OK
    /\ vcall.released # "items"
    /\ vcall.calls < MaxCalls

\* what the allocator may do when a call asks it for size more bytes
VMems(size) ==
    IF size = 0 \/ vec.length + size <= vec.capacity THEN {"ok"}
    ELSE {"ok", "fail"}

\* the orders memcpy may take for a move of n cells from cell src to cell dst
VDirs(dst, src, n) == IF Overlap(dst, src, n) THEN Directions ELSE {"forward"}

\* what every vector call leaves in the state
VecCall(op, i, n, items, compare, dir, r, released) ==
    /\ vec' = r.vec
    /\ vold' = vec
    /\ vcall' = [op |-> op, i |-> i, n |-> n, items |-> items,
                 compare |-> compare, dir |-> dir, ret |-> r.ret,
                 released |-> released, calls |-> vcall.calls + 1]
    /\ UNCHANGED vtype
    /\ UNCHANGED <<mapvars, itervars, poolvars, mapitervars, pure>>

VInsert ==
    /\ VecReady
    /\ \E a \in InsertArgs, i \in 0..(VLength(vec) + 1) :
        /\ VLength(vec) + a.n <= MaxItems
        /\ \E mem \in VMems(vector_type_mul(vtype, a.n)),
              dir \in VDirs(i + a.n, i, VLength(vec) - i) :
           \E r \in {vector__insert(vec, a.items, vector_type_mul(vtype, i),
                                    vector_type_mul(vtype, a.n), mem, dir,
                                    vtype)} :
             VecCall("insert", i, a.n, a.items, "NULL", dir, r, "none")

VRemove ==
    /\ VecReady
    /\ \E i \in 0..VLength(vec), n \in RemoveCounts :
       \E dir \in VDirs(i, i + n, VLength(vec) - i - n) :
       \E r \in {vector__remove(vec, vector_type_mul(vtype, i),
                                vector_type_mul(vtype, n), dir, vtype)} :
         VecCall("remove", i, n, NullItems, "NULL", dir, r, "none")

VSwapRemove ==
    /\ VecReady
    /\ \E i \in 0..VLength(vec), n \in RemoveCounts :
       \E dir \in VDirs(i, VLength(vec) - n, n) :
       \E r \in {vector__swap_remove(vec, vector_type_mul(vtype, i),
                                     vector_type_mul(vtype, n), dir, vtype)} :
         VecCall("swap_remove", i, n, NullItems, "NULL", dir, r, "none")

VSort ==
    /\ VecReady
    /\ \E compare \in CompareArgs, after \in Afterlives,
          mem \in (IF vec.length > SORT_BUFFER_SIZE THEN {"ok", "fail"}
                   ELSE {"ok"}) :
       \E r \in {vector__sort(vec, compare, vtype, mem, after)} :
         VecCall("sort", 0, 0, NullItems, compare, "forward", r, r.released)

VecNext == VInsert \/ VRemove \/ VSwapRemove \/ VSort

VecSpec == VecInit /\ [][VecNext]_vars

(* ------------------------------------------------------------------ *)
(* The iterator state machine                                          *)
(* ------------------------------------------------------------------ *)
MaxArray == 3
MaxIterCalls == 5

\* the arrays handed to iter_from_array: a[i] = 10 + i
IterArrays == {[i \in 1..n |-> 10 + i] : n \in 0..MaxArray}

\* sizeof(T) of the iter(T): a char, an int
IterItemSizes == {1, 4}

\* the out arguments of iter_next and iter_nth
OutArgs == {"slot", "NULL"}

\* the skip arguments of iter_nth and iter_advance
SkipArgs == 0..2

IterInit ==
    /\ MapIdle
    /\ PureIdle
    /\ VecIdle
    /\ PoolIdle
    /\ itype \in IterItemSizes
    /\ \E a \in IterArrays : it = iter__from_array(a, itype * Len(a))
    /\ iout = NONE
    /\ icall = NoIterCall

IterReady == icall.calls < MaxIterCalls

\* what every iterator call leaves in the state
IterCall(op, out, skip, r) ==
    /\ it' = r.it
    /\ iout' = r.out
    /\ icall' = [op |-> op, out |-> out, skip |-> skip, ret |-> r.ret,
                 calls |-> icall.calls + 1,
                 nexts |-> icall.nexts + (IF op = "next" THEN 1 ELSE 0),
                 only_next |-> icall.only_next /\ op = "next",
                 was |-> it, held |-> iout]
    /\ UNCHANGED itype
    /\ UNCHANGED <<mapvars, vecvars, poolvars, mapitervars, pure>>

INext ==
    /\ IterReady
    /\ \E out \in OutArgs :
       \E r \in {iter_next(it, out, iout, itype)} : IterCall("next", out, 0, r)

INth ==
    /\ IterReady
    /\ \E out \in OutArgs, n \in SkipArgs :
       \E r \in {iter_nth(it, out, iout, itype, n)} : IterCall("nth", out, n, r)

IAdvance ==
    /\ IterReady
    /\ \E n \in SkipArgs :
       \E r \in {iter_advance(it, iout, itype, n)} :
         IterCall("advance", "NULL", n, r)

IFree ==
    /\ IterReady
    /\ \E r \in {iter_free(it, iout, itype)} : IterCall("free", "self", 0, r)

IterNext == INext \/ INth \/ IAdvance \/ IFree

IterSpec == IterInit /\ [][IterNext]_vars

(* ------------------------------------------------------------------ *)
(* The pool state machine                                              *)
(* ------------------------------------------------------------------ *)
MaxPoolCalls == 36
MaxGives == 1

PoolInit ==
    /\ MapIdle
    /\ PureIdle
    /\ VecIdle
    /\ IterIdle
    /\ pool = pool__init
    /\ pbuild \in [shift : ShiftOutcomes, ctz0 : CtzOfZero]
    /\ pcall = NoPoolCall

PoolReady == pcall.calls < MaxPoolCalls

\* what every pool call leaves in the state; inuse is the set of items
\* taken and not handed to pool_give since
PoolCall(op, item, ret, p, inuse) ==
    /\ pool' = p
    /\ pcall' = [op |-> op, item |-> item, ret |-> ret,
                 calls |-> pcall.calls + 1,
                 gives |-> pcall.gives + (IF op = "give" THEN 1 ELSE 0),
                 was |-> pcall.inuse, inuse |-> inuse]
    /\ UNCHANGED pbuild
    /\ UNCHANGED <<mapvars, vecvars, itervars, mapitervars, pure>>

\* allocate is called only when the pool is full
PAllocs == IF pool.count + 1 > pool.capacity THEN BOOLEAN ELSE {TRUE}

PTake ==
    /\ PoolReady
    /\ \E allocated \in PAllocs :
       \E r \in {pool__take(pool, allocated, pbuild)} :
         PoolCall("take", r.item,
                  IF r.item = NullItem THEN ITER_ENOMEM ELSE ITER_OK, r.pool,
                  IF r.item = NullItem THEN pcall.inuse
                  ELSE pcall.inuse \cup {r.item})

PGive ==
    /\ PoolReady
    /\ pcall.gives < MaxGives
    /\ \E item \in pcall.inuse :
       \E r \in {pool__give(pool, item, pbuild)} :
         PoolCall("give", item, r.ret, r.pool, pcall.inuse \ {item})

PoolNext == PTake \/ PGive

PoolSpec == PoolInit /\ [][PoolNext]_vars

(* ------------------------------------------------------------------ *)
(* The hashmap with its iterator                                       *)
(* ------------------------------------------------------------------ *)
\* calls of iter_next made after the iterator has reported its end
MaxPastEnd == 2

MapIterInit == Init

\* the map's operations, while no iterator is out
MapStep == hiter.call = "NULL" /\ Next

MapIterCreate ==
    /\ pc = "run"
    /\ hiter.call = "NULL"
    /\ hiter' = hashmap__iter(map)
    /\ hicall' = [hicall EXCEPT !.op = "iter"]
    /\ UNCHANGED <<mapvars, vecvars, itervars, poolvars, pure>>

MapIterNext ==
    /\ hiter.call # "NULL"
    /\ hicall.past < MaxPastEnd
    /\ \E r \in {hashmap_iter_fn(map, hiter)} :
         /\ hiter' = r.iter
         /\ hicall' = [op |-> "next", ret |-> r.ret, out |-> r.out,
                       yielded |-> IF r.ret = ITER_OK
                                   THEN Append(hicall.yielded, r.slot)
                                   ELSE hicall.yielded,
                       past |-> hicall.past + (IF r.ret = ITER_OK THEN 0 ELSE 1)]
    /\ UNCHANGED <<mapvars, vecvars, itervars, poolvars, pure>>

MapIterStep == MapStep \/ MapIterCreate \/ MapIterNext

MapIterSpec == MapIterInit /\ [][MapIterStep]_vars

(* ------------------------------------------------------------------ *)
(* The functions of a map that depend on their arguments alone         *)
(* ------------------------------------------------------------------ *)
MaxHash == 600
MaxSize == 17

\* hash_t values handed to meta_part
Hashes == 0..MaxHash

\* sizeof and alignof of the key and value types of a hashmap_layout
Sizes == 0..MaxSize
Aligns == {1, 2, 4, 8, 16}
Layouts == [ksize : Sizes, kalign : Aligns, vsize : Sizes, valign : Aligns]

\* metadata bytes: Empty, Tombstone, the lowest and the highest tag, and
\* the byte with only the top bit set
MetaBytes == {META_EMPTY, META_TOMB, 2, 128, 255}

\* the 16 bytes of a group: one byte everywhere but at up to two places
MetaArrays ==
    {[i \in 1..META_SIZE |-> IF i = p THEN x ELSE IF i = q THEN y ELSE z] :
        p \in {1, 2, 8, 15, META_SIZE}, q \in {1, 9, META_SIZE},
        x \in MetaBytes, y \in MetaBytes, z \in {META_EMPTY, 255}}

\* the calls to make: the function and its arguments
PureCalls ==
    {[fn |-> "meta_part", applied |-> FALSE, hash |-> hash] : hash \in Hashes}
    \cup {[fn |-> "create", applied |-> FALSE, layout |-> layout,
            allocated |-> allocated] :
            layout \in Layouts, allocated \in BOOLEAN}
    \cup {[fn |-> "meta_match", applied |-> FALSE, parts |-> parts,
            part |-> part] :
            parts \in MetaArrays, part \in MetaBytes}

PureInit ==
    /\ MapIdle
    /\ VecIdle
    /\ IterIdle
    /\ PoolIdle
    /\ pure \in PureCalls

PMetaPart ==
    /\ pure.fn = "meta_part" /\ ~pure.applied
    /\ pure' = [fn |-> "meta_part", applied |-> TRUE, hash |-> pure.hash,
                out |-> meta_part(pure.hash)]
    /\ UNCHANGED <<mapvars, vecvars, itervars, poolvars, mapitervars>>

PCreate ==
    /\ pure.fn = "create" /\ ~pure.applied
    /\ pure' = [fn |-> "create", applied |-> TRUE, layout |-> pure.layout,
                allocated |-> pure.allocated,
                out |-> hashmap__create(pure.layout, pure.allocated)]
    /\ UNCHANGED <<mapvars, vecvars, itervars, poolvars, mapitervars>>

PMetaMatch ==
    /\ pure.fn = "meta_match" /\ ~pure.applied
    /\ pure' = [fn |-> "meta_match", applied |-> TRUE, parts |-> pure.parts,
                part |-> pure.part,
                sse2 |-> meta_match_sse2(pure.parts, pure.part),
                scalar |-> meta_match_scalar(pure.parts, pure.part)]
    /\ UNCHANGED <<mapvars, vecvars, itervars, poolvars, mapitervars>>

PureNext == PMetaPart \/ PCreate \/ PMetaMatch

PureSpec == PureInit /\ [][PureNext]_vars

(* ------------------------------------------------------------------ *)
(* The claims                                                          *)
(* ------------------------------------------------------------------ *)
\* the allocator has neither failed nor handed out memory that was not
\* zero-filled
Clean == ~hist.dirty /\ ~hist.failed

\* the calls that may grow the map
Growing == {"reserve", "insert", "set"}

\* C1: after inserts of pairwise distinct keys, a get of a key whose insert
\* returned ITER_OK returns the value inserted with it, never NULL and never
\* another value.  Stated for zero-filled memory.
C1_RoundTrip ==
    (last.op = "get" /\ hist.plain /\ ~hist.dirty /\ shadow[last.key] # NONE)
        => (last.fate = "returned" /\ last.out = shadow[last.key])

\* C2: while distinct keys are inserted one at a time, with an allocator
\* that never fails, every insert returns ITER_OK and every key inserted so
\* far is found with its value, however many insertions there are.
C2_GrowthPreservesEntries ==
    (last.op = "insert" /\ hist.plain /\ Clean)
        => /\ Ok(last)
           /\ \A k \in hist.tried : hashmap__get(map, k).out = shadow[k]

\* C3: no call loops over the groups forever, also after insert/remove
\* churn has turned Empty slots into Tombstones.  Stated for an allocator
\* that never fails and zero-filled memory.
C3_ProbesTerminate == Clean => pc # "hung"

\* C4: after an insert or set that returned ITER_OK, count <= 0.7 * capacity
\* and capacity is 0 only when count is 0.  Stated for zero-filled memory.
C4_LoadFactor ==
    (last.op \in {"insert", "set"} /\ Ok(last) /\ ~hist.dirty)
        => /\ ThresholdDen * hashmap__count(map)
                <= ThresholdNum * hashmap__capacity(map)
           /\ (hashmap__capacity(map) = 0 => hashmap__count(map) = 0)

\* C5: insert of a key that is live returns ITER_EEXIST and leaves the map
\* as it was, in every reachable state.  Stated for an allocator that never
\* fails and zero-filled memory.
C5_InsertLiveKey ==
    (last.op = "insert" /\ last.had # NONE /\ Clean)
        => (last.fate = "returned" /\ last.ret = ITER_EEXIST /\ map = pre)

\* C6: remove of a live key returns ITER_OK, turns the slot of the key into
\* a Tombstone and takes 1 off count; remove of a key that is not live
\* returns ITER_ENOENT and changes nothing.  Stated for an allocator that
\* never fails and zero-filled memory.
C6_Remove ==
    (last.op = "remove" /\ Clean)
        => IF last.had # NONE
           THEN /\ Ok(last)
                /\ hashmap__count(map) = hashmap__count(pre) - 1
                /\ \E s \in 1..Len(pre.buffer.slots) :
                     /\ pre.buffer.slots[s].key = last.key
                     /\ pre.buffer.slots[s].meta \notin {META_EMPTY, META_TOMB}
                     /\ map.buffer.slots =
                          [pre.buffer.slots EXCEPT ![s].meta = META_TOMB]
           ELSE last.fate = "returned" /\ last.ret = ITER_ENOENT /\ map = pre

\* C7: once a key was inserted and removed, get of it returns NULL, and a
\* later insert of it returns ITER_OK and makes get return the new value,
\* after any number of insert/remove cycles.  Stated for an allocator that
\* never fails and zero-filled memory.
C7_TombstoneCycles ==
    (Clean /\ last.key \in hist.removed)
        => /\ (last.op = "get" /\ shadow[last.key] = NONE)
                => (last.fate = "returned" /\ last.out = NONE)
           /\ (last.op = "insert" /\ last.had = NONE)
                => (Ok(last) /\ hashmap__get(map, last.key).out = last.val)

\* C8: set of a live key returns ITER_OK, makes get return the new value and
\* leaves count as it was; set of a key that is not live adds the entry and
\* adds 1 to count; set never fails because the key exists.  Stated for an
\* allocator that never fails and zero-filled memory.
C8_SetUpsert ==
    (last.op = "set" /\ Clean)
        => IF last.had # NONE
           THEN /\ Ok(last)
                /\ hashmap__count(map) = hashmap__count(pre)
                /\ hashmap__get(map, last.key).out = last.val
           ELSE /\ last.fate = "returned" /\ last.ret # ITER_EEXIST
                /\ Ok(last) =>
                     /\ hashmap__count(map) = hashmap__count(pre) + 1
                     /\ hashmap__get(map, last.key).out = last.val

\* C9: when the allocator fails while a map with at least one entry grows,
\* the reserve, insert or set returns ITER_ENOMEM, no buffer is freed or
\* replaced, and the map is exactly as before the call.
C9_GrowthFailureKeepsMap ==
    (last.op \in Growing /\ hashmap__count(pre) > 0 /\ last.fails > 0)
        => /\ last.fate = "returned" /\ last.ret = ITER_ENOMEM
           /\ map = pre
           /\ heap.live = last.live

\* C10: when the allocator fails while a map with count = 0 grows, the
\* reserve, insert or set returns ITER_ENOMEM and buffer, capacity and
\* count are as before the call.
C10_EmptyGrowthFailure ==
    (last.op \in Growing /\ hashmap__count(pre) = 0 /\ last.fails > 0)
        => /\ last.fate = "returned" /\ last.ret = ITER_ENOMEM
           /\ map.buffer = pre.buffer
           /\ hashmap__capacity(map) = hashmap__capacity(pre)
           /\ hashmap__count(map) = hashmap__count(pre)

\* the allocator failed while a map with a buffer and count = 0 was growing
C10_Witness ==
    /\ last.op \in Growing /\ hashmap__count(pre) = 0 /\ last.fails > 0
    /\ pre.buffer.nonnull
    /\ last.ret = ITER_ENOMEM

\* C12: after reserve(n) or with_capacity(n) returned, the next n inserts of
\* new keys return ITER_OK and make no call of the allocator.  Stated for an
\* allocator that never fails and zero-filled memory.
C12_ReservedRoom ==
    (last.op = "insert" /\ last.room > 0 /\ last.had = NONE /\ Clean)
        => (Ok(last) /\ last.calls = 0)

\* C13: capacity is 0 only before the first growth, and otherwise a power
\* of two that is a multiple of 16.
C13_CapacityShape ==
    IF hashmap__capacity(map) = 0 THEN ~hist.grown
    ELSE /\ hashmap__capacity(map) = round_pow2(hashmap__capacity(map))
         /\ hashmap__capacity(map) % META_SIZE = 0

\* C14: every growth exactly doubles the capacity, and the first growth
\* from the absent buffer yields HASHMAP_MIN = 16 slots.  Stated for an
\* allocator that never fails and zero-filled memory.
C14_GrowthDoubles ==
    (Clean /\ hashmap__capacity(map) # hashmap__capacity(pre))
        => IF hashmap__capacity(pre) = 0
           THEN hashmap__capacity(map) = HASHMAP_MIN
           ELSE hashmap__capacity(map) = 2 * hashmap__capacity(pre)

\* C15 as claimed: once an insert or set has returned ITER_OK, every
\* use_hash returns ITER_EINVAL and leaves the strategy as it was.
C15_UseHashAfterInsert ==
    (last.op = "use_hash" /\ hist.stored)
        => (last.fate = "returned" /\ last.ret = ITER_EINVAL /\ map = pre)

\* C15 as the code has it: use_hash returns ITER_EINVAL and changes nothing
\* exactly when the map holds an entry (count > 0) at the call; on a map with
\* count = 0, also one that held entries before, it returns ITER_OK and
\* installs the hash_fn and the hasher (hasher_fnv1a for NULL).
C15_UseHashWhenEmpty ==
    last.op = "use_hash"
        => /\ last.fate = "returned"
           /\ IF hashmap__count(pre) > 0
              THEN last.ret = ITER_EINVAL /\ map = pre
              ELSE /\ last.ret = ITER_OK
                   /\ map = [pre EXCEPT
                               !.hash = last.hash,
                               !.hasher = IF last.hasher # "NULL"
                                          THEN last.hasher ELSE "fnv1a"]

\* use_hash was refused on a map holding entries
C15_Witness ==
    /\ last.op = "use_hash" /\ hashmap__count(pre) > 0
    /\ last.ret = ITER_EINVAL /\ last.hasher = "djb2"

\* C16: insert and set with a null key or a null value, and remove with a
\* null key, return ITER_EINVAL and change neither the map nor the heap; get
\* with a null key returns NULL.
C16_NullArguments ==
    /\ last.op \in {"insert_null", "set_null", "remove_null"}
         => /\ last.fate = "returned" /\ last.ret = ITER_EINVAL
            /\ map = pre
            /\ heap.live = last.live /\ last.calls = 0
    /\ last.op = "get_null"
         => (last.fate = "returned" /\ last.out = NONE /\ map = pre)

\* insert was given a key and a null value on a map that holds entries and
\* is at its threshold
C16_Witness ==
    /\ last.op = "insert_null" /\ last.key # NONE /\ last.val = NONE
    /\ hashmap__count(pre) > 0 /\ Grows(1)
    /\ last.ret = ITER_EINVAL

\* C11: insert, set and reserve return ITER_ENOMEM only if an allocator call
\* made by that same call failed.
C11_EnomemOnlyOnFailure ==
    (last.op \in Growing /\ last.fate = "returned" /\ last.ret = ITER_ENOMEM)
        => last.fails > 0

\* how often a value occurs among the items
Occurs(items, v) == Cardinality({k \in DOMAIN items : items[k] = v})

\* the items of a sequence at the indices lo..hi - 1, counted from 0
Slice(items, lo, hi) == SubSeq(items, lo + 1, hi)

\* C17: a vector_insert(vec, items, i, n) with n > 0 and i <= length that
\* returns ITER_OK leaves old[0..i), then the n new items, then
\* old[i..length): the length grows by n and every item stored before keeps
\* its value and its place in the order.
C17_InsertPlacesItems ==
    (vcall.op = "insert" /\ vcall.ret = ITER_OK /\ vcall.n > 0
        /\ vcall.i <= VLength(vold))
    => /\ VLength(vec) = VLength(vold) + vcall.n
       /\ VItems(vec) = Slice(VItems(vold), 0, vcall.i) \o vcall.items
                        \o Slice(VItems(vold), vcall.i, VLength(vold))

\* C18: a vector_remove(vec, i, n) with n > 0 and i + n <= length returns
\* ITER_OK and leaves old[0..i) followed by old[i+n..length), whatever the
\* item size; with n = 0 or i + n > length it returns ITER_EINVAL and leaves
\* the vector as it was.
C18_RemoveClosesGap ==
    vcall.op = "remove"
    => IF vcall.n > 0 /\ vcall.i + vcall.n <= VLength(vold)
       THEN /\ vcall.ret = ITER_OK
            /\ VItems(vec) = Slice(VItems(vold), 0, vcall.i)
                             \o Slice(VItems(vold), vcall.i + vcall.n,
                                      VLength(vold))
       ELSE vcall.ret = ITER_EINVAL /\ vec = vold

\* C19: a vector_swap_remove(vec, i, n) with i + n <= length returns ITER_OK,
\* makes the length n smaller, leaves the items before i where they were, and
\* the items left are the old items at the indices outside [i, i+n), each as
\* often as before.
C19_SwapRemoveKeepsOthers ==
    (vcall.op = "swap_remove" /\ vcall.i + vcall.n <= VLength(vold))
    => /\ vcall.ret = ITER_OK
       /\ VLength(vec) = VLength(vold) - vcall.n
       /\ Slice(VItems(vec), 0, vcall.i) = Slice(VItems(vold), 0, vcall.i)
       /\ \A v \in {1, 2, 3, JUNK} :
            Occurs(VItems(vec), v)
              = Occurs(Slice(VItems(vold), 0, vcall.i)
                       \o Slice(VItems(vold), vcall.i + vcall.n, VLength(vold)),
                       v)

\* C20: a vector_sort(vec, cmp) that returns ITER_OK leaves the items it had
\* before, each as often as before, in non-decreasing order under cmp, with
\* the length unchanged, and vector_is_sorted(vec, cmp) then returns
\* ITER_TRUE; for every item count, powers of two or not.
C20_SortSorts ==
    (vcall.op = "sort" /\ vcall.ret = ITER_OK)
    => /\ vec.length = vold.length
       /\ \A v \in {1, 2, 3, JUNK} :
            Occurs(VItems(vec), v) = Occurs(VItems(vold), v)
       /\ \A k \in 1..(VLength(vec) - 1) :
            CallCompare(vcall.compare, VItems(vec)[k], VItems(vec)[k + 1]) <= 0
       /\ vector__is_sorted(vec, vcall.compare, vtype) = ITER_TRUE

\* the slots of the table, and the states of a slot
Slots(m) == m.buffer.slots
IsEmpty(slot) == slot.meta = META_EMPTY
IsTomb(slot) == slot.meta = META_TOMB
IsOccupied(slot) == ~IsEmpty(slot) /\ ~IsTomb(slot)

\* the group (from 0) a slot index (from 1) lies in
GroupOf(s) == (s - 1) \div META_SIZE

GroupHasEmpty(m, g) ==
    \E i \in 1..META_SIZE : IsEmpty(Slots(m)[g * META_SIZE + i])

\* the groups a probe for key visits before it comes to group g
ProbePath(m, key, g) ==
    LET mask == get_mask(m)
        home == BitAnd(get_hash(m, key), mask)
        dist == (g + mask + 1 - home) % (mask + 1)
    IN  {BitAnd(home + d, mask) : d \in 0..(dist - 1)}

\* the map has a table whose slots are all addressed through the mask
HasTable(m) == m.buffer.nonnull /\ Len(Slots(m)) = hashmap__capacity(m)

\* C24: for every Occupied slot holding key k in group g, no group on the
\* probe sequence of k from its home group up to, not including, g has an
\* Empty slot.
C24_NoEmptyBeforeKey ==
    HasTable(map) =>
        \A s \in DOMAIN Slots(map) :
            IsOccupied(Slots(map)[s]) =>
                \A g \in ProbePath(map, Slots(map)[s].key, GroupOf(s)) :
                    ~GroupHasEmpty(map, g)

\* C25: count is the number of slots whose metadata byte is neither Empty
\* nor Tombstone.
C25_CountIsOccupied ==
    map.count = Cardinality({s \in DOMAIN Slots(map) : IsOccupied(Slots(map)[s])})

\* C26: no two Occupied slots hold equal keys.
C26_KeysDistinct ==
    \A s, t \in DOMAIN Slots(map) :
        (s # t /\ IsOccupied(Slots(map)[s]) /\ IsOccupied(Slots(map)[t]))
            => Slots(map)[s].key # Slots(map)[t].key

HasEmptySlot(m) == \E s \in DOMAIN Slots(m) : IsEmpty(Slots(m)[s])

\* C27: where a probe can start, at least one slot is Empty: for get and
\* remove when count > 0, for insert and set when the headroom check has let
\* the call through and the capacity is above 0.
C27_ProbeCanStop ==
    /\ map.count > 0 => HasEmptySlot(map)
    /\ (hashmap__capacity(map) > 0
          /\ ThresholdDen * (map.count + 1) <= ThresholdNum * hashmap__capacity(map))
       => HasEmptySlot(map)

\* the last call left the table the map had before it
SameTable == last.calls = 0 /\ Len(Slots(map)) = Len(Slots(pre))

\* C28: a Tombstone slot stays a Tombstone across get, insert, set and remove
\* while no growth replaces the table, and insert and set write a key only
\* into a slot that was Empty.
C28_TombstonesStay ==
    (last.op \in {"get", "insert", "set", "remove"} /\ SameTable)
    => \A s \in DOMAIN Slots(pre) :
          /\ IsTomb(Slots(pre)[s]) => Slots(map)[s] = Slots(pre)[s]
          /\ (last.op \in {"insert", "set"}
                /\ Slots(map)[s].key # Slots(pre)[s].key)
             => IsEmpty(Slots(pre)[s])
          /\ (last.op \in {"insert", "set"}
                /\ Slots(map)[s].meta # Slots(pre)[s].meta)
             => IsEmpty(Slots(pre)[s])

C28_Witness ==
    /\ last.op = "insert" /\ last.fate = "returned" /\ last.ret = ITER_OK
    /\ SameTable
    /\ map.count = pre.count + 1
    /\ \E s \in DOMAIN Slots(pre) : IsTomb(Slots(pre)[s])
    /\ last.key \in hist.removed


\* the last call grew the map and returned ITER_OK
GrewOk ==
    /\ last.op \in Growing \cup {"with_capacity"}
    /\ last.fate = "returned" /\ last.ret = ITER_OK
    /\ hashmap__capacity(map) # hashmap__capacity(pre)

\* C29: right after a growth that succeeded no slot of the map is a
\* Tombstone.
C29_GrowthDropsTombstones ==
    GrewOk => \A s \in DOMAIN Slots(map) : ~IsTomb(Slots(map)[s])

C21_NextYieldsInOrder ==
    (icall.op = "next" /\ icall.only_next)
    => IF icall.nexts <= Len(it.items)
       THEN /\ icall.ret = ITER_OK
            /\ icall.out = "slot" => iout = it.items[icall.nexts]
       ELSE /\ icall.ret = ITER_ENODATA
            /\ iout = icall.held
            /\ it.current = icall.was.current

\* C22: a pointer returned by pool_take is not in use: it is not one that
\* an earlier pool_take returned and that no pool_give was called with since.
C22_TakeIsUnused ==
    (pcall.op = "take" /\ pcall.item # NullItem) => pcall.item \notin pcall.was

\* the entries the calls made so far have put into the map and not removed
LiveKeys == {k \in AllKeys : shadow[k] # NONE}

\* the slots an iterator has yielded that hold key k
YieldsOf(k) ==
    {j \in DOMAIN hicall.yielded : Slots(map)[hicall.yielded[j]].key = k}

\* C23: an iterator made on a map of n entries returns ITER_OK n times; by
\* the time it returns ITER_ENODATA it has yielded each live entry's value
\* once, in ascending slot order, each from a slot that is neither Empty nor
\* Tombstone; after ITER_ENODATA it never returns ITER_OK again.
C23_IterYieldsLiveEntries ==
    hicall.op = "next" =>
      /\ Len(hicall.yielded) <= map.count
      /\ \A j \in DOMAIN hicall.yielded :
           /\ IsOccupied(Slots(map)[hicall.yielded[j]])
           /\ j > 1 => hicall.yielded[j - 1] < hicall.yielded[j]
      /\ hicall.past > 0 =>
           /\ hicall.ret = ITER_ENODATA
           /\ Len(hicall.yielded) = map.count
           /\ \A k \in LiveKeys :
                /\ Cardinality(YieldsOf(k)) = 1
                /\ \A j \in YieldsOf(k) :
                     Slots(map)[hicall.yielded[j]].val = shadow[k]

\* the byte just past the value of slot i of group b, from the buffer's start
SlotEnd(m, b, i) == m.bucketSize * b + m.voffset + (i + 1) * m.vsize

\* C31: after a growth that succeeded the bytes asked of the allocator for
\* the buffer are at least (capacity / 16) * bucketSize, and the metadata,
\* key and value of every slot lie inside them.
C31_BufferHoldsEverySlot ==
    (GrewOk /\ map.buffer.nonnull)
    => /\ map.buffer.bytes >= (hashmap__capacity(map) \div META_SIZE) * map.bucketSize
       /\ \A b \in 0..((hashmap__capacity(map) \div META_SIZE) - 1) :
          \A i \in 0..(META_SIZE - 1) : SlotEnd(map, b, i) <= map.buffer.bytes

\* a reserve or with_capacity that returned ITER_OK with a larger table
Grown ==
    /\ last.op \in {"reserve", "with_capacity"}
    /\ last.fate = "returned" /\ last.ret = ITER_OK
    /\ map.buffer.nonnull
    /\ Len(Slots(map)) > Len(Slots(pre))

\* C32: after a growth from the absent buffer that succeeded every slot is
\* Empty and count is 0, whatever the memory held; every slot a later growth
\* adds is Empty or holds a live entry.
C32_NewSlotsEmpty ==
    Grown
    => /\ ~pre.buffer.nonnull
          => /\ map.count = 0
             /\ \A s \in DOMAIN Slots(map) : IsEmpty(Slots(map)[s])
       /\ \A s \in DOMAIN Slots(map) :
            s > Len(Slots(pre))
            => \/ IsEmpty(Slots(map)[s])
               \/ /\ IsOccupied(Slots(map)[s])
                  /\ Slots(map)[s].key \in LiveKeys
                  /\ Slots(map)[s].val = shadow[Slots(map)[s].key]

\* C33: when an operation has returned, the blocks obtained from the
\* allocator and not released are the map's buffer and nothing else: one
\* block when the map has a buffer, none when it has not.
C33_NoStrayBuffer ==
    pc \in {"run", "null"}
    => heap.live = (IF map.buffer.nonnull THEN 1 ELSE 0)

\* C34: for every hash, meta_part(hash) lies in 2..255 and is hash mod 256
\* whenever that is 2 or more: the byte insert, set and fast_insert write as
\* the metadata of the slot they take is never 0 or 1.
C34_TagRange ==
    (pure.fn = "meta_part" /\ pure.applied)
    => /\ pure.out \in 2..255
       /\ pure.hash % 256 >= 2 => pure.out = pure.hash % 256
       /\ pure.out # META_EMPTY /\ pure.out # META_TOMB

C34_Witness ==
    /\ pure.fn = "meta_part" /\ pure.applied
    /\ pure.hash > 256 /\ pure.hash % 256 = META_TOMB
    /\ pure.out = 2

\* C35: for every layout with ksize > 0 the map hashmap__create returns has
\* koffset >= 16, voffset >= koffset + 16 * ksize and bucketSize >= voffset +
\* 16 * vsize, with koffset a multiple of MAX(kalign, ksize), voffset a
\* multiple of MAX(valign, vsize) and bucketSize a multiple of the alignment
\* of the metadata; for a layout with ksize 0 it returns NULL.
C35_LayoutShape ==
    (pure.fn = "create" /\ pure.applied)
    => IF pure.layout.ksize = 0 THEN pure.out = NullMap
       ELSE pure.allocated
            => /\ pure.out # NullMap
               /\ pure.out.koffset >= META_SIZE
               /\ pure.out.voffset >= pure.out.koffset + META_SIZE * pure.layout.ksize
               /\ pure.out.bucketSize >= pure.out.voffset + META_SIZE * pure.layout.vsize
               /\ pure.out.koffset % Max(pure.layout.kalign, pure.layout.ksize) = 0
               /\ pure.out.voffset % Max(pure.layout.valign, pure.layout.vsize) = 0
               /\ pure.out.bucketSize % MetaAlign = 0

C35_Witness ==
    /\ pure.fn = "create" /\ pure.applied /\ pure.allocated
    /\ pure.layout = [ksize |-> 3, kalign |-> 1, vsize |-> 8, valign |-> 8]
    /\ pure.out.koffset = 18 /\ pure.out.voffset = 72 /\ pure.out.bucketSize = 208

\* bit i of a mask
BitOf(mask, i) == (mask \div Pow2(i)) % 2

\* C36: for 16 metadata bytes and a target byte, bit i of the mask of
\* meta_match, 0 <= i < 16, is set exactly when byte i is the target, no bit
\* from 16 on is set, and the build with SSE2 and the build without return
\* the same mask.
C36_MatchMask ==
    (pure.fn = "meta_match" /\ pure.applied)
    => /\ pure.sse2 = pure.scalar
       /\ pure.sse2 >= 0 /\ pure.sse2 < Pow2(META_SIZE)
       /\ \A i \in 0..(META_SIZE - 1) :
            BitOf(pure.sse2, i) = 1 <=> pure.parts[i + 1] = pure.part

C36_Witness ==
    /\ pure.fn = "meta_match" /\ pure.applied
    /\ pure.part = 128
    /\ pure.parts[1] = 128 /\ pure.parts[META_SIZE] = 128 /\ pure.parts[2] = 255
    /\ pure.scalar = Pow2(META_SIZE - 1) + 1

====
